---- MODULE Spec2Model ----
(***************************************************************************)
(* A model of backend/utils.py: the text codec (quote / unquote), the      *)
(* NDJSON stream formatter, the group-filter builder, the response         *)
(* normalizers and the promptflow input adapter.                           *)
(*                                                                         *)
(* Text is a sequence of Unicode code points (naturals).  A Python value   *)
(* that may be None is a tagged record: None, or Str(s) for a text s.      *)
(***************************************************************************)
EXTENDS Integers, Sequences, FiniteSets, TLC

VARIABLES
    \* text codec: one encode / decode round
    text, encoded_text, decoded_text, codec_pc,
    \* format_as_ndjson: the upstream r, whether it raises after its last
    \* event, the events taken from it, the event in hand, the exception
    \* in hand, the lines yielded
    r, r_raises, consumed, event, error, lines, ndjson_pc,
    \* fetchUserGroups / generateFilterString: the endpoint of the call in
    \* progress, the parsed pages of the calls waiting for their recursive
    \* call, the responses received so far, the value the last call
    \* returned, the two results
    endpoint, stack, fetched, ret, userGroups, filter_string, groups_pc,
    \* format_non_streaming_response / format_stream_response
    native_fn, chatCompletion, history_metadata, apim_request_id,
    response_obj, native_pc,
    \* format_pf_non_streaming_response
    pfCompletion, response_field_name, citations_field_name,
    pf_history_metadata, pf_response, pf_pc,
    \* convert_to_pf_format: the messages looped over so far
    input_json, msg_index, output_json, adapter_pc

codecVars == <<text, encoded_text, decoded_text, codec_pc>>
ndjsonVars == <<r, r_raises, consumed, event, error, lines, ndjson_pc>>
groupsVars ==
    <<endpoint, stack, fetched, ret, userGroups, filter_string, groups_pc>>
nativeVars ==
    <<native_fn, chatCompletion, history_metadata, apim_request_id,
      response_obj, native_pc>>
pfVars ==
    <<pfCompletion, response_field_name, citations_field_name,
      pf_history_metadata, pf_response, pf_pc>>
adapterVars == <<input_json, msg_index, output_json, adapter_pc>>
vars == <<codecVars, ndjsonVars, groupsVars, nativeVars, pfVars, adapterVars>>

\* what the operations of one component leave alone
notCodec == <<ndjsonVars, groupsVars, nativeVars, pfVars, adapterVars>>
notNdjson == <<codecVars, groupsVars, nativeVars, pfVars, adapterVars>>
notGroups == <<codecVars, ndjsonVars, nativeVars, pfVars, adapterVars>>
notNative == <<codecVars, ndjsonVars, groupsVars, pfVars, adapterVars>>
notPf == <<codecVars, ndjsonVars, groupsVars, nativeVars, adapterVars>>
notAdapter == <<codecVars, ndjsonVars, groupsVars, nativeVars, pfVars>>

(***************************************************************************)
(* Bounds of the model.                                                    *)
(***************************************************************************)
MaxLen == 3
MaxEvents == 3
MaxPages == 3
MaxMessages == 3

(***************************************************************************)
(* Python values.                                                          *)
(***************************************************************************)
None == [t |-> "None"]
Str(s) == [t |-> "str", s |-> s]
List(s) == [t |-> "list", v |-> s]
\* a key a dict does not have, an attribute an object does not have
Absent == [t |-> "absent"]

\* code points used in sample inputs:
\*   34 '"'  37 '%'  47 '/'  50 '2'  70 'F'  97 'a'  233 'e-acute'
\*   8364 euro sign  55296 a lone surrogate (not encodable as UTF-8)
Alphabet == {37, 47, 50, 70, 97, 233, 8364, 55296}

RECURSIVE SeqsUpTo(_, _)
SeqsUpTo(S, n) ==
    IF n = 0 THEN {<<>>}
    ELSE LET shorter == SeqsUpTo(S, n - 1)
         IN  shorter \cup {Append(s, c) : s \in shorter, c \in S}

Texts == SeqsUpTo(Alphabet, MaxLen)

RECURSIVE Concat(_)
Concat(ss) == IF ss = <<>> THEN <<>> ELSE Head(ss) \o Concat(Tail(ss))

(***************************************************************************)
(* urllib.parse.quote(text, safe="")                                       *)
(***************************************************************************)
IsSurrogate(c) == c >= 55296 /\ c <= 57343

\* str.encode("utf-8") of one code point
Utf8(c) ==
    IF c < 128 THEN <<c>>
    ELSE IF c < 2048 THEN <<192 + (c \div 64), 128 + (c % 64)>>
    ELSE IF c < 65536
         THEN <<224 + (c \div 4096), 128 + ((c \div 64) % 64), 128 + (c % 64)>>
    ELSE <<240 + (c \div 262144), 128 + ((c \div 4096) % 64),
           128 + ((c \div 64) % 64), 128 + (c % 64)>>

\* quote's _ALWAYS_SAFE: letters, digits and "_.-~"
Unreserved(c) ==
    \/ c >= 48 /\ c <= 57
    \/ c >= 65 /\ c <= 90
    \/ c >= 97 /\ c <= 122
    \/ c \in {95, 46, 45, 126}

HexChar(n) == IF n < 10 THEN 48 + n ELSE 55 + n

\* "%{:02X}".format(byte)
PctByte(b) == <<37, HexChar(b \div 16), HexChar(b % 16)>>

\* a quote that treats "%" as safe
QuoteLeavesPercent(b) == IF Unreserved(b) \/ b = 37 THEN <<b>> ELSE PctByte(b)

\* quote_from_bytes with an empty safe set: every byte outside the
\* unreserved set is escaped
QuoteByte(b) == IF Unreserved(b) THEN <<b>> ELSE PctByte(b)

RECURSIVE QuoteBytes(_)
QuoteBytes(bs) ==
    IF bs = <<>> THEN <<>> ELSE QuoteByte(Head(bs)) \o QuoteBytes(Tail(bs))

\* text.encode("utf-8", "strict") raises UnicodeEncodeError on a surrogate
CanEncode(s) == \A i \in 1..Len(s) : ~IsSurrogate(s[i])

quote(s) == QuoteBytes(Concat([i \in 1..Len(s) |-> Utf8(s[i])]))

encode_text_for_ai_search(s) == quote(s)

(***************************************************************************)
(* urllib.parse.unquote(string): the ASCII runs of the string are          *)
(* percent-decoded to bytes and the bytes decoded as UTF-8 with            *)
(* errors="replace"; the other characters are kept.                        *)
(***************************************************************************)
IsHex(c) ==
    \/ c >= 48 /\ c <= 57
    \/ c >= 65 /\ c <= 70
    \/ c >= 97 /\ c <= 102

HexVal(c) == IF c <= 57 THEN c - 48 ELSE IF c <= 70 THEN c - 55 ELSE c - 87

\* unquote_to_bytes: "%XY" with two hex digits is one byte, any other
\* character (a "%" not followed by two hex digits too) is itself
RECURSIVE unquote_to_bytes(_)
unquote_to_bytes(s) ==
    IF s = <<>> THEN <<>>
    ELSE IF s[1] = 37 /\ Len(s) >= 3 /\ IsHex(s[2]) /\ IsHex(s[3])
         THEN <<16 * HexVal(s[2]) + HexVal(s[3])>>
                  \o unquote_to_bytes(SubSeq(s, 4, Len(s)))
    ELSE <<s[1]>> \o unquote_to_bytes(Tail(s))

\* continuation bytes a lead byte asks for (0: not a lead byte)
Utf8Need(b) ==
    IF b >= 194 /\ b <= 223 THEN 1
    ELSE IF b >= 224 /\ b <= 239 THEN 2
    ELSE IF b >= 240 /\ b <= 244 THEN 3
    ELSE 0

\* the range of the j-th continuation byte after lead byte b
Utf8ContOk(b, j, x) ==
    LET lo == IF j = 1 /\ b = 224 THEN 160 ELSE IF j = 1 /\ b = 240 THEN 144 ELSE 128
        hi == IF j = 1 /\ b = 237 THEN 159 ELSE IF j = 1 /\ b = 244 THEN 143 ELSE 191
    IN  x >= lo /\ x <= hi

\* how many of the bytes after the lead byte are valid continuations
RECURSIVE Utf8Valid(_, _, _)
Utf8Valid(bs, j, need) ==
    IF j > need \/ j + 1 > Len(bs) \/ ~Utf8ContOk(bs[1], j, bs[j + 1]) THEN j - 1
    ELSE Utf8Valid(bs, j + 1, need)

Utf8Point(bs, need) ==
    IF need = 1 THEN (bs[1] - 192) * 64 + (bs[2] - 128)
    ELSE IF need = 2
         THEN (bs[1] - 224) * 4096 + (bs[2] - 128) * 64 + (bs[3] - 128)
    ELSE (bs[1] - 240) * 262144 + (bs[2] - 128) * 4096
             + (bs[3] - 128) * 64 + (bs[4] - 128)

\* bytes.decode("utf-8", "replace"): an ill-formed sequence becomes U+FFFD
RECURSIVE Utf8Decode(_)
Utf8Decode(bs) ==
    IF bs = <<>> THEN <<>>
    ELSE IF bs[1] < 128 THEN <<bs[1]>> \o Utf8Decode(Tail(bs))
    ELSE LET need == Utf8Need(bs[1])
             got == Utf8Valid(bs, 1, need)
         IN  IF need > 0 /\ got = need
             THEN <<Utf8Point(bs, need)>>
                      \o Utf8Decode(SubSeq(bs, need + 2, Len(bs)))
             ELSE <<65533>> \o Utf8Decode(SubSeq(bs, got + 2, Len(bs)))

\* the length of the longest prefix of s whose characters are all ASCII
\* (ascii = TRUE) or all non-ASCII (ascii = FALSE)
RECURSIVE RunLen(_, _)
RunLen(s, ascii) ==
    IF s = <<>> \/ (s[1] < 128) # ascii THEN 0 ELSE 1 + RunLen(Tail(s), ascii)

RECURSIVE unquote(_)
unquote(s) ==
    IF s = <<>> THEN <<>>
    ELSE LET ascii == s[1] < 128
             n == RunLen(s, ascii)
             run == SubSeq(s, 1, n)
         IN  (IF ascii THEN Utf8Decode(unquote_to_bytes(run)) ELSE run)
                 \o unquote(SubSeq(s, n + 1, Len(s)))

\* unquote(None) raises TypeError ("%" in None)
CanDecode(v) == v # None

decode_text_from_ai_search(s) == unquote(s)

(***************************************************************************)
(* The codec round: encode a text, then decode the result.                 *)
(***************************************************************************)
CodecIdle ==
    /\ text = <<>>
    /\ encoded_text = None
    /\ decoded_text = None
    /\ codec_pc = "idle"

CodecInit ==
    /\ text \in Texts
    /\ encoded_text = None
    /\ decoded_text = None
    /\ codec_pc = "start"

Encode ==
    /\ codec_pc = "start"
    /\ IF CanEncode(text)
       THEN /\ encoded_text' = Str(encode_text_for_ai_search(text))
            /\ codec_pc' = "encoded"
       ELSE /\ encoded_text' = encoded_text
            /\ codec_pc' = "raised"
    /\ UNCHANGED <<text, decoded_text, notCodec>>

Decode ==
    /\ codec_pc = "encoded"
    /\ decoded_text' = Str(decode_text_from_ai_search(encoded_text.s))
    /\ codec_pc' = "decoded"
    /\ UNCHANGED <<text, encoded_text, notCodec>>

CodecNext == Encode \/ Decode

(***************************************************************************)
(* format_as_ndjson(r): an async generator over the upstream r.            *)
(*                                                                         *)
(* An upstream event is a plain dict, a dataclass (JSONEncoder.default     *)
(* turns it into its dict) or an object json cannot serialize (default     *)
(* raises TypeError).  The upstream ends with StopAsyncIteration or by     *)
(* raising an Exception.                                                   *)
(***************************************************************************)
EventKinds == {"dict", "dataclass", "object"}
Events == [kind : EventKinds, val : 1..2]

NoEvent == [kind |-> "none", val |-> 0]
NoError == [raised |-> FALSE, msg |-> ""]
Raised(m) == [raised |-> TRUE, msg |-> m]

\* JSONEncoder.default: dataclasses.asdict for a dataclass, TypeError for
\* anything else json does not know
Serializable(e) == e.kind \in {"dict", "dataclass"}

\* json.dumps(event, cls=JSONEncoder) + "\n"
EventLine(e) == [kind |-> "event", json |-> <<"{", e.val, "}">>, newline |-> TRUE]

\* json.dumps({"error": str(error)})
ErrorLine(err) == [kind |-> "error", json |-> <<"{", "error", err.msg, "}">>, newline |-> FALSE]

NdjsonIdle ==
    /\ r = <<>>
    /\ r_raises = FALSE
    /\ consumed = 0
    /\ event = NoEvent
    /\ error = NoError
    /\ lines = <<>>
    /\ ndjson_pc = "idle"

NdjsonInit ==
    /\ r \in SeqsUpTo(Events, MaxEvents)
    /\ r_raises \in BOOLEAN
    /\ consumed = 0
    /\ event = NoEvent
    /\ error = NoError
    /\ lines = <<>>
    /\ ndjson_pc = "next"

\* async for event in r: the upstream delivers its next event
NextEvent ==
    /\ ndjson_pc = "next"
    /\ consumed < Len(r)
    /\ event' = r[consumed + 1]
    /\ consumed' = consumed + 1
    /\ ndjson_pc' = "dumps"
    /\ UNCHANGED <<r, r_raises, error, lines, notNdjson>>

\* async for event in r: the upstream is exhausted (StopAsyncIteration)
UpstreamStops ==
    /\ ndjson_pc = "next"
    /\ consumed = Len(r)
    /\ ~r_raises
    /\ ndjson_pc' = "done"
    /\ UNCHANGED <<r, r_raises, consumed, event, error, lines, notNdjson>>

\* async for event in r: the upstream raises; the try catches it
UpstreamRaises ==
    /\ ndjson_pc = "next"
    /\ consumed = Len(r)
    /\ r_raises
    /\ error' = Raised("upstream")
    /\ ndjson_pc' = "except"
    /\ UNCHANGED <<r, r_raises, consumed, event, lines, notNdjson>>

\* yield json.dumps(event, cls=JSONEncoder) + "\n"
Dumps ==
    /\ ndjson_pc = "dumps"
    /\ IF Serializable(event)
       THEN /\ lines' = Append(lines, EventLine(event))
            /\ ndjson_pc' = "next"
            /\ error' = error
       ELSE /\ error' = Raised("not JSON serializable")
            /\ ndjson_pc' = "except"
            /\ lines' = lines
    /\ UNCHANGED <<r, r_raises, consumed, event, notNdjson>>

\* a handler inside the loop: the loop goes on after the error line
ExceptResumes ==
    /\ ndjson_pc = "except"
    /\ lines' = Append(lines, ErrorLine(error))
    /\ ndjson_pc' = "next"
    /\ UNCHANGED <<r, r_raises, consumed, event, error, notNdjson>>

\* except Exception as error: log it, yield the error line; the generator
\* then returns
Except ==
    /\ ndjson_pc = "except"
    /\ lines' = Append(lines, ErrorLine(error))
    /\ ndjson_pc' = "done"
    /\ UNCHANGED <<r, r_raises, consumed, event, error, notNdjson>>

\* the consumer stops iterating while the generator is suspended at the
\* yield of the loop: GeneratorExit is no Exception, the handler is skipped
Close ==
    /\ ndjson_pc = "next"
    /\ lines # <<>>
    /\ ndjson_pc' = "closed"
    /\ UNCHANGED <<r, r_raises, consumed, event, error, lines, notNdjson>>

NdjsonNext ==
    \/ NextEvent
    \/ UpstreamStops
    \/ UpstreamRaises
    \/ Dumps
    \/ Except
    \/ Close


(***************************************************************************)
(* fetchUserGroups(userToken, nextLink=None) and generateFilterString.     *)
(*                                                                         *)
(* The directory service answers each request with an exception (of        *)
(* requests.get or of r.json()), a status other than 200, or a 200 with a  *)
(* JSON page: a dict that may hold "value" (a list of group entries) and   *)
(* "@odata.nextLink".                                                      *)
(***************************************************************************)
DefaultEndpoint == Str(<<"me/transitiveMemberOf?$select=id">>)
AZURE_SEARCH_PERMITTED_GROUPS_COLUMN == "group_ids"

\* the "value" of a page, if any: a list of group entries, each a dict
\* with or without the key "id"
PageValues ==
    { Absent,
      List(<<>>),
      List(<<[id |-> Str(<<"g1">>)]>>),
      List(<<[id |-> Str(<<"g2">>)], [id |-> Str(<<"g1">>)]>>),
      List(<<[id |-> Absent]>>) }

NextLinks == {Absent, Str(<<>>), Str(<<"next">>)}

Pages == [value : PageValues, nextLink : NextLinks]

Responses ==
    {[kind |-> "exception"], [kind |-> "status", status_code |-> 403]}
        \cup {[kind |-> "ok", status_code |-> 200, json |-> p] : p \in Pages}

\* Python truth of an optional text: None, a missing value and "" are falsy
Truthy(v) == v # None /\ v # Absent /\ v # Str(<<>>)

GroupsIdle ==
    /\ endpoint = None
    /\ stack = <<>>
    /\ fetched = <<>>
    /\ ret = Absent
    /\ userGroups = Absent
    /\ filter_string = Absent
    /\ groups_pc = "idle"

\* generateFilterString(userToken) has called fetchUserGroups(userToken)
GroupsInit ==
    /\ endpoint = DefaultEndpoint
    /\ stack = <<>>
    /\ fetched = <<>>
    /\ ret = Absent
    /\ userGroups = Absent
    /\ filter_string = Absent
    /\ groups_pc = "get"

\* what a call does with the answer to its requests.get, up to its own
\* return or its recursive call
Get(resp) ==
    /\ fetched' = Append(fetched, resp)
    /\ IF resp.kind # "ok"
       THEN \* an exception, or a status other than 200: return []
            /\ ret' = List(<<>>)
            /\ groups_pc' = "ret"
            /\ UNCHANGED <<stack, endpoint>>
       ELSE IF resp.json.nextLink # Absent
       THEN \* fetchUserGroups(userToken, r["@odata.nextLink"])
            /\ stack' = Append(stack, resp.json)
            /\ endpoint' = IF Truthy(resp.json.nextLink)
                           THEN resp.json.nextLink
                           ELSE DefaultEndpoint
            /\ ret' = ret
            /\ groups_pc' = "get"
       ELSE \* return r["value"]; a KeyError is caught: return []
            /\ ret' = IF resp.json.value = Absent
                      THEN List(<<>>)
                      ELSE resp.json.value
            /\ groups_pc' = "ret"
            /\ UNCHANGED <<stack, endpoint>>
    /\ UNCHANGED <<userGroups, filter_string, notGroups>>

\* r = requests.get(endpoint, headers=headers) and what follows it
FetchPage ==
    /\ groups_pc = "get"
    /\ \E resp \in Responses :
           \* the model stops the service offering a further page at MaxPages
           /\ (resp.kind = "ok" /\ resp.json.nextLink # Absent)
                  => Len(fetched) + 1 < MaxPages
           /\ Get(resp)

\* an extend that puts the next pages before the page of the call
ExtendPrepends(page, nextLinkData) ==
    IF page.value = Absent THEN List(<<>>)
    ELSE List(nextLinkData.v \o page.value.v)

\* the value a call returns once its recursive call has returned ret:
\* r["value"].extend(nextLinkData); return r["value"], a KeyError is
\* caught: return []
Extend(page, nextLinkData) ==
    IF page.value = Absent THEN List(<<>>)
    ELSE List(page.value.v \o nextLinkData.v)

\* a recursive call returns to the call that made it
ReturnToCaller ==
    /\ groups_pc = "ret"
    /\ stack # <<>>
    /\ ret' = Extend(stack[Len(stack)], ret)
    /\ stack' = SubSeq(stack, 1, Len(stack) - 1)
    /\ UNCHANGED <<endpoint, fetched, userGroups, filter_string, groups_pc,
                   notGroups>>

\* the outermost call returns to generateFilterString
ReturnGroups ==
    /\ groups_pc = "ret"
    /\ stack = <<>>
    /\ userGroups' = ret
    /\ groups_pc' = "filter"
    /\ UNCHANGED <<endpoint, stack, fetched, ret, filter_string, notGroups>>

\* ", ".join(ids)
RECURSIVE Join(_)
Join(ids) ==
    IF ids = <<>> THEN <<>>
    ELSE IF Len(ids) = 1 THEN ids[1]
    ELSE ids[1] \o <<", ">> \o Join(Tail(ids))

\* [obj["id"] for obj in userGroups]: a KeyError when an entry has no "id"
HasIds(groups) == \A i \in 1..Len(groups) : groups[i].id # Absent

\* the ids with every repetition dropped
RECURSIVE GroupIdsDeduplicated(_)
GroupIdsDeduplicated(groups) ==
    IF groups = <<>> THEN <<>>
    ELSE LET n == Len(groups)
             front == GroupIdsDeduplicated(SubSeq(groups, 1, n - 1))
         IN  IF \E i \in 1..(n - 1) : groups[i].id = groups[n].id
             THEN front
             ELSE Append(front, groups[n].id.s)

\* [obj["id"] for obj in userGroups]
GroupIds(groups) == [i \in 1..Len(groups) |-> groups[i].id.s]

\* f"{AZURE_SEARCH_PERMITTED_GROUPS_COLUMN}/any(g:search.in(g, '{group_ids}'))"
FilterString(group_ids) ==
    Str(<<AZURE_SEARCH_PERMITTED_GROUPS_COLUMN, "/any(g:search.in(g, '">>
            \o group_ids \o <<"'))">>)

\* generateFilterString after fetchUserGroups has returned
BuildFilter ==
    /\ groups_pc = "filter"
    /\ IF HasIds(userGroups.v)
       THEN /\ filter_string' = FilterString(Join(GroupIds(userGroups.v)))
            /\ groups_pc' = "done"
       ELSE /\ filter_string' = filter_string
            /\ groups_pc' = "raised"
    /\ UNCHANGED <<endpoint, stack, fetched, ret, userGroups, notGroups>>

GroupsNext ==
    \/ FetchPage
    \/ ReturnToCaller
    \/ ReturnGroups
    \/ BuildFilter

(***************************************************************************)
(* json.dumps of a text or of None (ensure_ascii: every character outside  *)
(* " ".."~" is written \uXXXX, '"' and "\" are escaped).                   *)
(***************************************************************************)
HexLower(n) == IF n < 10 THEN 48 + n ELSE 87 + n

JsonU(n) ==
    <<92, 117, HexLower(n \div 4096), HexLower((n \div 256) % 16),
      HexLower((n \div 16) % 16), HexLower(n % 16)>>

JsonChar(c) ==
    IF c = 34 THEN <<92, 34>>
    ELSE IF c = 92 THEN <<92, 92>>
    ELSE IF c = 10 THEN <<92, 110>>
    ELSE IF c = 13 THEN <<92, 114>>
    ELSE IF c = 9 THEN <<92, 116>>
    ELSE IF c = 8 THEN <<92, 98>>
    ELSE IF c = 12 THEN <<92, 102>>
    ELSE IF c >= 32 /\ c <= 126 THEN <<c>>
    ELSE IF c < 65536 THEN JsonU(c)
    ELSE JsonU(55296 + ((c - 65536) \div 1024))
             \o JsonU(56320 + ((c - 65536) % 1024))

JsonString(s) == <<34>> \o Concat([i \in 1..Len(s) |-> JsonChar(s[i])]) \o <<34>>

\* json.dumps(v) for v a text or None: "null" is 110 117 108 108
JsonDumps(v) == IF v = None THEN <<110, 117, 108, 108>> ELSE JsonString(v.s)

\* json.dumps({"citations": s}): {"citations": "<s>"}
JsonCitations(s) ==
    <<123, 34, 99, 105, 116, 97, 116, 105, 111, 110, 115, 34, 58, 32>>
        \o JsonString(s) \o <<125>>

(***************************************************************************)
(* format_non_streaming_response and format_stream_response.               *)
(*                                                                         *)
(* A result is the empty dict, the envelope, or the exception raised.      *)
(***************************************************************************)
\* sample texts: "", "a", "%2F", "a/<e-acute>", '"%C3%A9'
SampleTexts ==
    {<<>>, <<97>>, <<37, 50, 70>>, <<97, 47, 233>>, <<34, 37, 67, 51, 37, 65, 57>>}

\* a result dict is a record tagged "dict": its keys are its other fields
EmptyDict == [t |-> "dict"]
Keys(d) == DOMAIN d \ {"t"}
Raise(exc) == [t |-> "raise", exc |-> exc]

Envelope(cc, messages, hm, rid) ==
    [t |-> "dict",
     id |-> cc.id, model |-> cc.model, created |-> cc.created,
     object |-> cc.object,
     choices |-> <<[messages |-> messages]>>,
     history_metadata |-> hm,
     apim_request_id |-> rid]

\* a message of a completion: content is a text or None, the attribute
\* context is there or not
Messages ==
    [role : {"assistant"},
     content : {None} \cup {Str(s) : s \in SampleTexts},
     context : {Absent, None} \cup {Str(s) : s \in SampleTexts}]

\* a delta of a chunk: role is "assistant", another role or None
Deltas ==
    [role : {"assistant", "tool", "None"},
     content : {None} \cup {Str(s) : s \in SampleTexts},
     context : {Absent} \cup {Str(s) : s \in SampleTexts \ {<<97>>}}]

OtherMessage == [role |-> "assistant", content |-> Str(<<97, 97>>), context |-> Absent]

Headers ==
    {[id |-> "chatcmpl-1", model |-> "gpt-4", created |-> 1700000000,
      object |-> "chat.completion"]}

CompletionsOf(firsts, field) ==
    { [id |-> h.id, model |-> h.model, created |-> h.created,
       object |-> h.object, choices |-> cs] :
          h \in Headers,
          cs \in {<<>>} \cup {<<[f \in {field} |-> m]>> : m \in firsts}
                   \cup {<<[f \in {field} |-> m], [f \in {field} |-> OtherMessage]>> :
                            m \in firsts} }

HistoryMetadata == {"conversation-1", "conversation-2"}
RequestIds == {"apim-1", "apim-2"}

\* the two entries in the other order
NonStreamingMessagesContentFirst(message) ==
    <<[role |-> "assistant",
       content |-> Str(decode_text_from_ai_search(message.content.s))]>>
        \o (IF message.context # Absent
            THEN <<[role |-> "tool",
                    content |-> Str(decode_text_from_ai_search(JsonDumps(message.context)))]>>
            ELSE <<>>)

\* the messages format_non_streaming_response appends for a message whose
\* content is a text
NonStreamingMessages(message) ==
    (IF message.context # Absent
     THEN <<[role |-> "tool",
             content |-> Str(decode_text_from_ai_search(JsonDumps(message.context)))]>>
     ELSE <<>>)
        \o <<[role |-> "assistant",
              content |-> Str(decode_text_from_ai_search(message.content.s))]>>

format_non_streaming_response(cc, hm, rid) ==
    IF Len(cc.choices) > 0 /\ cc.choices[1].message # None
    THEN LET message == cc.choices[1].message
         IN  IF ~CanDecode(message.content)
             THEN Raise("TypeError")
             ELSE Envelope(cc, NonStreamingMessages(message), hm, rid)
    ELSE EmptyDict

\* the branches of format_stream_response with the role test first
StreamMessageRoleFirst(delta) ==
    IF delta.role = "assistant" /\ delta.context # Absent
    THEN <<[role |-> "assistant",
            context |-> Str(decode_text_from_ai_search(delta.context.s))]>>
    ELSE IF delta.context # Absent
    THEN <<[role |-> "tool",
            content |-> Str(decode_text_from_ai_search(JsonDumps(delta.context)))]>>
    ELSE IF Truthy(delta.content)
    THEN <<[role |-> "assistant",
            content |-> Str(decode_text_from_ai_search(delta.content.s))]>>
    ELSE <<>>

\* the message format_stream_response appends for a delta, if any (its
\* second branch repeats the test of the first)
StreamMessage(delta) ==
    IF delta.context # Absent
    THEN <<[role |-> "tool",
            content |-> Str(decode_text_from_ai_search(JsonDumps(delta.context)))]>>
    ELSE IF delta.role = "assistant" /\ delta.context # Absent
    THEN <<[role |-> "assistant",
            context |-> Str(decode_text_from_ai_search(delta.context.s))]>>
    ELSE IF Truthy(delta.content)
    THEN <<[role |-> "assistant",
            content |-> Str(decode_text_from_ai_search(delta.content.s))]>>
    ELSE <<>>

format_stream_response(chunk, hm, rid) ==
    IF Len(chunk.choices) > 0 /\ chunk.choices[1].delta # None
    THEN LET messages == StreamMessage(chunk.choices[1].delta)
         IN  IF messages # <<>>
             THEN Envelope(chunk, messages, hm, rid)
             ELSE EmptyDict
    ELSE EmptyDict

NativeIdle ==
    /\ native_fn = ""
    /\ chatCompletion = None
    /\ history_metadata = ""
    /\ apim_request_id = ""
    /\ response_obj = Absent
    /\ native_pc = "idle"

NativeInit ==
    /\ native_fn \in {"format_non_streaming_response", "format_stream_response"}
    /\ chatCompletion \in
           IF native_fn = "format_non_streaming_response"
           THEN CompletionsOf(Messages \cup {None}, "message")
           ELSE CompletionsOf(Deltas \cup {None}, "delta")
    /\ history_metadata \in HistoryMetadata
    /\ apim_request_id \in RequestIds
    /\ response_obj = Absent
    /\ native_pc = "call"

Finish(result) ==
    /\ response_obj' = result
    /\ native_pc' = IF result.t = "raise" THEN "raised" ELSE "returned"
    /\ UNCHANGED <<native_fn, chatCompletion, history_metadata,
                   apim_request_id, notNative>>

FormatNonStreaming ==
    /\ native_pc = "call"
    /\ native_fn = "format_non_streaming_response"
    /\ Finish(format_non_streaming_response(chatCompletion, history_metadata,
                                            apim_request_id))

FormatStream ==
    /\ native_pc = "call"
    /\ native_fn = "format_stream_response"
    /\ Finish(format_stream_response(chatCompletion, history_metadata,
                                     apim_request_id))

NativeNext == FormatNonStreaming \/ FormatStream

(***************************************************************************)
(* format_pf_non_streaming_response(chatCompletion, history_metadata,      *)
(*     response_field_name, citations_field_name)                          *)
(*                                                                         *)
(* The promptflow answer is None or a dict that may hold "error", "id"     *)
(* and the fields "reply" and "documents"; either field name may be the    *)
(* configured response field or citations field.                           *)
(***************************************************************************)
FieldNames == {"reply", "documents"}

PfTexts == {<<>>, <<37, 50, 70>>, <<34, 37, 67, 51, 37, 65, 57>>}

PfCompletions ==
    {None} \cup
    [error : {Absent, None, Str(<<"flow failed">>)},
     id : {Absent, Str(<<"pf-1">>)},
     reply : {Absent, None} \cup {Str(s) : s \in PfTexts},
     documents : {Absent, None} \cup {Str(s) : s \in PfTexts}]

TimeoutError ==
    [t |-> "dict",
     error |-> Str(<<"No response received from promptflow endpoint. Increase PROMPTFLOW_RESPONSE_TIMEOUT parameter or check the promptflow endpoint.">>)]

\* the two entries in the other order
PfMessagesToolFirst(cc, rfn, cfn) ==
    (IF cc[cfn] # Absent
     THEN <<[role |-> "tool",
             content |-> Str(JsonCitations(
                 decode_text_from_ai_search(JsonDumps(cc[cfn]))))]>>
     ELSE <<>>)
        \o (IF cc[rfn] # Absent
            THEN <<[role |-> "assistant",
                    content |-> Str(decode_text_from_ai_search(cc[rfn].s))]>>
            ELSE <<>>)

\* the messages built from the two fields (the response field holds a text)
PfMessages(cc, rfn, cfn) ==
    (IF cc[rfn] # Absent
     THEN <<[role |-> "assistant",
             content |-> Str(decode_text_from_ai_search(cc[rfn].s))]>>
     ELSE <<>>)
        \o (IF cc[cfn] # Absent
            THEN <<[role |-> "tool",
                    content |-> Str(JsonCitations(
                        decode_text_from_ai_search(JsonDumps(cc[cfn]))))]>>
            ELSE <<>>)

\* the try block: unquote(None) raises TypeError, chatCompletion["id"]
\* raises KeyError; except Exception returns {}
PfTry(cc, hm, rfn, cfn) ==
    IF (cc[rfn] # Absent /\ ~CanDecode(cc[rfn])) \/ cc.id = Absent
    THEN EmptyDict
    ELSE [t |-> "dict",
          id |-> cc.id, model |-> Str(<<>>), created |-> Str(<<>>),
          object |-> Str(<<>>),
          history_metadata |-> hm,
          choices |-> <<[messages |-> PfMessages(cc, rfn, cfn)]>>]

\* an "error" that counts only when neither field is there
PfErrorAfterFields(cc, hm, rfn, cfn) ==
    IF cc = None THEN TimeoutError
    ELSE IF cc[rfn] = Absent /\ cc[cfn] = Absent /\ cc.error # Absent
    THEN [t |-> "dict", error |-> cc.error]
    ELSE PfTry(cc, hm, rfn, cfn)

format_pf_non_streaming_response(cc, hm, rfn, cfn) ==
    IF cc = None THEN TimeoutError
    ELSE IF cc.error # Absent      \* "error" in chatCompletion
    THEN [t |-> "dict", error |-> cc.error]
    ELSE PfTry(cc, hm, rfn, cfn)

PfIdle ==
    /\ pfCompletion = None
    /\ response_field_name = ""
    /\ citations_field_name = ""
    /\ pf_history_metadata = ""
    /\ pf_response = Absent
    /\ pf_pc = "idle"

PfInit ==
    /\ pfCompletion \in PfCompletions
    /\ response_field_name \in FieldNames
    /\ citations_field_name \in FieldNames
    /\ pf_history_metadata \in HistoryMetadata
    /\ pf_response = Absent
    /\ pf_pc = "call"

FormatPf ==
    /\ pf_pc = "call"
    /\ pf_response' = format_pf_non_streaming_response(
                          pfCompletion, pf_history_metadata,
                          response_field_name, citations_field_name)
    /\ pf_pc' = "returned"
    /\ UNCHANGED <<pfCompletion, response_field_name, citations_field_name,
                   pf_history_metadata, notPf>>

PfNext == FormatPf

(***************************************************************************)
(* convert_to_pf_format(input_json, request_field_name,                    *)
(*     response_field_name): one loop step per message.                    *)
(***************************************************************************)
\* an entry of input_json["messages"]: None (falsy) or a message
AdapterMessages ==
    {None}
        \cup [role : {"user"}, content : {Str(<<97, 47, 233>>), Str(<<37, 50, 70>>)}]
        \cup [role : {"assistant"},
              content : {Str(<<>>), Str(<<37, 50, 70>>), Str(<<97>>)}]
        \cup [role : {"system"}, content : {Str(<<97>>)}]

InputJsons ==
    {[messages |-> Absent]}
        \cup {[messages |-> List(ms)] : ms \in SeqsUpTo(AdapterMessages, MaxMessages)}

NewTurn(message) ==
    [inputs |-> [request_field_name |->
                     Str(encode_text_for_ai_search(message.content.s))],
     outputs |-> [response_field_name |-> Str(<<>>)]]

SetOutput(turn, message) ==
    [turn EXCEPT !.outputs.response_field_name =
                     Str(decode_text_from_ai_search(message.content.s))]

\* a loop body that writes the answer into the first turn
ProcessMessageFirstTurn(out, message) ==
    IF message = None THEN out
    ELSE IF message.role = "user" THEN Append(out, NewTurn(message))
    ELSE IF message.role = "assistant" /\ Len(out) > 0
    THEN [out EXCEPT ![1] = SetOutput(out[1], message)]
    ELSE out

\* the body of the for loop for one message
ProcessMessage(out, message) ==
    IF message = None THEN out
    ELSE IF message.role = "user" THEN Append(out, NewTurn(message))
    ELSE IF message.role = "assistant" /\ Len(out) > 0
    THEN [out EXCEPT ![Len(out)] = SetOutput(out[Len(out)], message)]
    ELSE out

AdapterIdle ==
    /\ input_json = None
    /\ msg_index = 0
    /\ output_json = <<>>
    /\ adapter_pc = "idle"

AdapterInit ==
    /\ input_json \in InputJsons
    /\ msg_index = 0
    /\ output_json = <<>>
    /\ adapter_pc = "call"

\* output_json = []; for message in input_json["messages"]: a KeyError
\* when the key is missing
EnterLoop ==
    /\ adapter_pc = "call"
    /\ adapter_pc' = IF input_json.messages = Absent THEN "raised" ELSE "loop"
    /\ UNCHANGED <<input_json, msg_index, output_json, notAdapter>>

LoopStep ==
    /\ adapter_pc = "loop"
    /\ msg_index < Len(input_json.messages.v)
    /\ output_json' = ProcessMessage(output_json, input_json.messages.v[msg_index + 1])
    /\ msg_index' = msg_index + 1
    /\ UNCHANGED <<input_json, adapter_pc, notAdapter>>

ReturnOutput ==
    /\ adapter_pc = "loop"
    /\ msg_index = Len(input_json.messages.v)
    /\ adapter_pc' = "returned"
    /\ UNCHANGED <<input_json, msg_index, output_json, notAdapter>>

AdapterNext == EnterLoop \/ LoopStep \/ ReturnOutput

(***************************************************************************)
(* Specifications.                                                         *)
(***************************************************************************)

InitCodec ==
    CodecInit /\ NdjsonIdle /\ GroupsIdle /\ NativeIdle /\ PfIdle /\ AdapterIdle

SpecCodec == InitCodec /\ [][CodecNext]_vars

InitNdjson ==
    CodecIdle /\ NdjsonInit /\ GroupsIdle /\ NativeIdle /\ PfIdle /\ AdapterIdle

SpecNdjson == InitNdjson /\ [][NdjsonNext]_vars

InitGroups ==
    CodecIdle /\ NdjsonIdle /\ GroupsInit /\ NativeIdle /\ PfIdle /\ AdapterIdle

SpecGroups == InitGroups /\ [][GroupsNext]_vars

InitNative ==
    CodecIdle /\ NdjsonIdle /\ GroupsIdle /\ NativeInit /\ PfIdle /\ AdapterIdle

SpecNative == InitNative /\ [][NativeNext]_vars

InitPf ==
    CodecIdle /\ NdjsonIdle /\ GroupsIdle /\ NativeIdle /\ PfInit /\ AdapterIdle

SpecPf == InitPf /\ [][PfNext]_vars

InitAdapter ==
    CodecIdle /\ NdjsonIdle /\ GroupsIdle /\ NativeIdle /\ PfIdle /\ AdapterInit

SpecAdapter == InitAdapter /\ [][AdapterNext]_vars

\* any one of the functions of the module is called
Init ==
    \/ InitCodec
    \/ InitNdjson
    \/ InitGroups
    \/ InitNative
    \/ InitPf
    \/ InitAdapter

Next ==
    \/ Encode
    \/ Decode
    \/ NextEvent
    \/ UpstreamStops
    \/ UpstreamRaises
    \/ Dumps
    \/ Except
    \/ Close
    \/ FetchPage
    \/ ReturnToCaller
    \/ ReturnGroups
    \/ BuildFilter
    \/ FormatNonStreaming
    \/ FormatStream
    \/ FormatPf
    \/ EnterLoop
    \/ LoopStep
    \/ ReturnOutput

Spec == Init /\ [][Next]_vars

(***************************************************************************)
(* Claims.                                                                 *)
(***************************************************************************)

\* a text made of unreserved characters and "%XY" escapes only
RECURSIVE OnlyUnreservedAndEscapes(_)
OnlyUnreservedAndEscapes(s) ==
    \/ s = <<>>
    \/ Unreserved(s[1]) /\ OnlyUnreservedAndEscapes(Tail(s))
    \/ /\ Len(s) >= 3
       /\ s[1] = 37 /\ IsHex(s[2]) /\ IsHex(s[3])
       /\ OnlyUnreservedAndEscapes(SubSeq(s, 4, Len(s)))

\* C1: for every text of the supported character domain (a text with no
\* lone surrogate) encoding succeeds, the encoded text holds nothing but
\* unreserved characters and "%XY" escapes, and decoding it gives the
\* text back.
C1_RoundTrip ==
    /\ codec_pc = "raised" => ~CanEncode(text)
    /\ codec_pc \in {"encoded", "decoded"} =>
           OnlyUnreservedAndEscapes(encoded_text.s)
    /\ codec_pc = "decoded" => decoded_text = Str(text)

C1_Witness ==
    /\ codec_pc = "decoded"
    /\ text = <<37, 50, 70>>
    /\ encoded_text = Str(<<37, 50, 53, 50, 70>>)
    /\ decoded_text = Str(text)

\* the index of the first event of r that cannot be serialized, Len(r) + 1
\* when every event can and the upstream raises after them, 0 when nothing
\* fails
FirstFailure ==
    LET bad == {i \in 1..Len(r) : ~Serializable(r[i])}
    IN  IF bad # {} THEN CHOOSE i \in bad : \A j \in bad : i <= j
        ELSE IF r_raises THEN Len(r) + 1
        ELSE 0

\* C2: the lines yielded so far are the lines of the first events of r, in
\* order; once the generator has returned they are one line per event when
\* nothing failed, and the lines of events 1..k-1 followed by one error line
\* when event k failed; nothing is yielded after that and no exception
\* reaches the consumer.
C2_NdjsonOrder ==
    /\ ndjson_pc # "propagated"
    /\ \A j \in 1..Len(lines) :
           \/ j <= Len(r) /\ Serializable(r[j]) /\ lines[j] = EventLine(r[j])
           \/ /\ lines[j].kind = "error"
              /\ j = Len(lines)
              /\ j = FirstFailure
              /\ ndjson_pc = "done"
    /\ ndjson_pc = "done" =>
           /\ FirstFailure = 0 => Len(lines) = Len(r)
           /\ FirstFailure # 0 =>
                  /\ Len(lines) = FirstFailure
                  /\ lines[FirstFailure].kind = "error"
                  /\ ~lines[FirstFailure].newline
           /\ ~ENABLED NdjsonNext

C2_Witness ==
    /\ ndjson_pc = "done"
    /\ Len(r) = 3
    /\ FirstFailure = 2
    /\ Len(lines) = 2
    /\ lines[1].kind = "event"
    /\ lines[2].kind = "error"

\* the index of the first response that fails its call: an exception, a
\* status other than 200, or a page with no "value"; Len(fetched) + 1 when
\* there is none
FirstFailingPage ==
    LET bad == {i \in 1..Len(fetched) :
                    \/ fetched[i].kind # "ok"
                    \/ fetched[i].json.value = Absent}
    IN  IF bad = {} THEN Len(fetched) + 1
        ELSE CHOOSE i \in bad : \A j \in bad : i <= j

\* the entries of the pages before the first failing one, in arrival order
PagesBeforeFailure ==
    Concat([i \in 1..(FirstFailingPage - 1) |-> fetched[i].json.value.v])

\* C4: fetchUserGroups never raises and returns, in arrival order, the
\* entries of the pages fetched before the first failing page; a request is
\* made only while no call has returned.
C4_PagesBeforeFailure ==
    /\ groups_pc \in {"filter", "done", "raised"} =>
           /\ userGroups = List(PagesBeforeFailure)
           /\ stack = <<>>
    /\ groups_pc = "get" => Len(stack) = Len(fetched) /\ ret = Absent
    /\ \A i \in 1..Len(stack) : stack[i] = fetched[i].json

C4_Witness ==
    /\ groups_pc = "filter"
    /\ Len(fetched) = 3
    /\ fetched[3].kind = "status"
    /\ userGroups = List(<<[id |-> Str(<<"g1">>)], [id |-> Str(<<"g2">>)],
                           [id |-> Str(<<"g1">>)]>>)

\* C9: generateFilterString returns the configured column followed by
\* /any(g:search.in(g, '<ids>')), the ids being those of the groups
\* fetchUserGroups returned, in that order and with repetitions, joined with
\* ", "; with no groups it returns the filter with an empty id list.  (It
\* returns whenever every entry has an "id".)
C9_FilterString ==
    /\ groups_pc = "done" =>
           /\ filter_string.s[1] = AZURE_SEARCH_PERMITTED_GROUPS_COLUMN
           /\ filter_string.s[2] = "/any(g:search.in(g, '"
           /\ filter_string.s[Len(filter_string.s)] = "'))"
           /\ LET ids == SubSeq(filter_string.s, 3, Len(filter_string.s) - 1)
                  n == Len(userGroups.v)
              IN  /\ Len(ids) = IF n = 0 THEN 0 ELSE 2 * n - 1
                  /\ \A i \in 1..n : ids[2 * i - 1] = userGroups.v[i].id.s[1]
                  /\ \A i \in 1..(n - 1) : ids[2 * i] = ", "
    /\ groups_pc = "raised" => ~HasIds(userGroups.v)

C9_Witness ==
    /\ groups_pc = "done"
    /\ Len(fetched) = 2
    /\ filter_string =
           Str(<<"group_ids", "/any(g:search.in(g, '", "g1", ", ", "g2", ", ", "g1", "'))">>)

C9_WitnessEmpty ==
    /\ groups_pc = "done"
    /\ fetched[1].kind = "status"
    /\ filter_string = Str(<<"group_ids", "/any(g:search.in(g, '", "'))">>)

\* C3: none of format_non_streaming_response, format_stream_response,
\* format_pf_non_streaming_response, convert_to_pf_format, fetchUserGroups
\* and generateFilterString ever raises: every call returns a value.
C3_NeverRaises ==
    /\ native_pc # "raised"
    /\ pf_pc # "raised"
    /\ adapter_pc # "raised"
    /\ groups_pc # "raised"

\* the entries of input_json["messages"]
AdapterInput == input_json.messages.v

IsRole(i, role) == AdapterInput[i] # None /\ AdapterInput[i].role = role

\* the user messages among the first msg_index entries
UsersSeen == {i \in 1..msg_index : IsRole(i, "user")}

\* the assistant messages seen after user message u and before the next
\* user message
AnswersTo(u) ==
    {j \in (u + 1)..msg_index :
        /\ IsRole(j, "assistant")
        /\ \A v \in UsersSeen : ~(u < v /\ v < j)}

Latest(S) == CHOOSE j \in S : \A k \in S : k <= j

\* C5: after any prefix of input_json["messages"] the output holds one turn
\* per user message of the prefix, in input order, its input the encoded
\* content of that message and its output "" or, once assistant messages
\* have followed the user message (before the next user message), the
\* decoded content of the latest of them; nothing else changes the output.
C5_TurnsOfPrefix ==
    /\ adapter_pc \in {"call", "raised"} => output_json = <<>>
    /\ adapter_pc \in {"loop", "returned"} =>
           /\ Len(output_json) = Cardinality(UsersSeen)
           /\ \A u \in UsersSeen :
                  LET turn == output_json[Cardinality({v \in UsersSeen : v <= u})]
                  IN  /\ turn.inputs.request_field_name =
                             Str(quote(AdapterInput[u].content.s))
                      /\ turn.outputs.response_field_name =
                             IF AnswersTo(u) = {} THEN Str(<<>>)
                             ELSE Str(unquote(AdapterInput[Latest(AnswersTo(u))].content.s))
    /\ adapter_pc = "returned" => msg_index = Len(AdapterInput)

C5_Witness ==
    /\ adapter_pc = "returned"
    /\ AdapterInput = <<[role |-> "user", content |-> Str(<<97, 47, 233>>)],
                        [role |-> "assistant", content |-> Str(<<37, 50, 70>>)],
                        [role |-> "user", content |-> Str(<<37, 50, 70>>)]>>
    /\ output_json =
           <<[inputs |-> [request_field_name |->
                              Str(<<97, 37, 50, 70, 37, 67, 51, 37, 65, 57>>)],
              outputs |-> [response_field_name |-> Str(<<47>>)]],
             [inputs |-> [request_field_name |-> Str(<<37, 50, 53, 50, 70>>)],
              outputs |-> [response_field_name |-> Str(<<>>)]]>>

\* the first message or delta of the completion, None when there is none
FirstOf(field) ==
    IF Len(chatCompletion.choices) = 0 THEN None
    ELSE chatCompletion.choices[1][field]

PassedThrough(resp) ==
    /\ resp.id = chatCompletion.id
    /\ resp.model = chatCompletion.model
    /\ resp.created = chatCompletion.created
    /\ resp.object = chatCompletion.object
    /\ resp.history_metadata = history_metadata
    /\ resp.apim_request_id = apim_request_id
    /\ Len(resp.choices) = 1

\* C6: format_non_streaming_response returns {} when choices is empty or
\* the first message is None; for a message (whose content is a text) it
\* returns the envelope with one choice whose messages are the tool entry
\* with the decoded JSON of the context, if and only if the message has a
\* context, followed by the assistant entry with the decoded content.
C6_NonStreaming ==
    (native_fn = "format_non_streaming_response" /\ native_pc # "call") =>
        LET message == FirstOf("message")
        IN  /\ message = None => native_pc = "returned" /\ response_obj = EmptyDict
            /\ (message # None /\ message.content # None) =>
                   /\ native_pc = "returned"
                   /\ Keys(response_obj) =
                          {"id", "model", "created", "object", "choices",
                           "history_metadata", "apim_request_id"}
                   /\ PassedThrough(response_obj)
                   /\ LET ms == response_obj.choices[1].messages
                      IN  /\ Len(ms) = IF message.context = Absent THEN 1 ELSE 2
                          /\ ms[Len(ms)] =
                                 [role |-> "assistant",
                                  content |-> Str(unquote(message.content.s))]
                          /\ message.context # Absent =>
                                 ms[1] = [role |-> "tool",
                                          content |-> Str(unquote(JsonDumps(message.context)))]
            /\ native_pc = "returned" =>
                   (response_obj = EmptyDict <=> message = None)

C6_Witness ==
    /\ native_fn = "format_non_streaming_response"
    /\ native_pc = "returned"
    /\ Len(chatCompletion.choices) = 2
    /\ response_obj # EmptyDict
    /\ response_obj.choices[1].messages =
           <<[role |-> "tool", content |-> Str(<<34, 92, 34, 233, 34>>)],
             [role |-> "assistant", content |-> Str(<<47>>)]>>

\* C7: format_stream_response never raises and returns the envelope with
\* the single tool message of the decoded JSON of the context when the
\* delta has a context, whatever its role and content; the envelope with
\* the single assistant message of the decoded content when it has no
\* context and a truthy content; {} otherwise.  No message carries a
\* "context" key.
C7_Stream ==
    (native_fn = "format_stream_response" /\ native_pc # "call") =>
        LET delta == FirstOf("delta")
        IN  /\ native_pc = "returned"
            /\ (delta # None /\ delta.context # Absent) =>
                   /\ PassedThrough(response_obj)
                   /\ response_obj.choices[1].messages =
                          <<[role |-> "tool",
                             content |-> Str(unquote(JsonDumps(delta.context)))]>>
            /\ (delta # None /\ delta.context = Absent /\ Truthy(delta.content)) =>
                   /\ PassedThrough(response_obj)
                   /\ response_obj.choices[1].messages =
                          <<[role |-> "assistant",
                             content |-> Str(unquote(delta.content.s))]>>
            /\ (delta = None \/ (delta.context = Absent /\ ~Truthy(delta.content))) =>
                   response_obj = EmptyDict
            /\ response_obj # EmptyDict =>
                   /\ Len(response_obj.choices[1].messages) = 1
                   /\ "context" \notin DOMAIN response_obj.choices[1].messages[1]

C7_Witness ==
    /\ native_fn = "format_stream_response"
    /\ native_pc = "returned"
    /\ FirstOf("delta") # None
    /\ FirstOf("delta").role = "assistant"
    /\ FirstOf("delta").content = Str(<<97>>)
    /\ FirstOf("delta").context = Str(<<37, 50, 70>>)
    /\ response_obj.choices[1].messages =
           <<[role |-> "tool", content |-> Str(<<34, 47, 34>>)]>>

\* C8: format_pf_non_streaming_response returns a dict whose only key is
\* "error" when the completion is None (the timeout message) and when the
\* completion holds "error" (that value), whatever else the completion
\* holds.
C8_ErrorFirst ==
    pf_pc = "returned" =>
        /\ pfCompletion = None =>
               /\ Keys(pf_response) = {"error"}
               /\ pf_response.error = TimeoutError.error
        /\ (pfCompletion # None /\ pfCompletion.error # Absent) =>
               /\ Keys(pf_response) = {"error"}
               /\ pf_response.error = pfCompletion.error

C8_Witness ==
    /\ pf_pc = "returned"
    /\ pfCompletion # None
    /\ pfCompletion.error = Str(<<"flow failed">>)
    /\ pfCompletion.id # Absent
    /\ pfCompletion.reply = Str(<<37, 50, 70>>)
    /\ pfCompletion.documents = Str(<<37, 50, 70>>)
    /\ response_field_name = "reply"
    /\ citations_field_name = "documents"
    /\ pf_response = [t |-> "dict", error |-> Str(<<"flow failed">>)]

\* C10: for a completion that is not None and holds no "error",
\* format_pf_non_streaming_response returns {} when building the envelope
\* raises ("id" is missing, or the response field holds None) and otherwise
\* the envelope {id, model: "", created: "", object: "", history_metadata,
\* choices: [one]} whose messages are the assistant entry with the decoded
\* response field, if and only if that field is present, followed by the
\* tool entry with the JSON of {"citations": decoded JSON of the citations
\* field}, if and only if that field is present.
C10_PfEnvelope ==
    (pf_pc = "returned" /\ pfCompletion # None /\ pfCompletion.error = Absent) =>
        LET response == pfCompletion[response_field_name]
            citations == pfCompletion[citations_field_name]
            raises == pfCompletion.id = Absent \/ response = None
            n == (IF response = Absent THEN 0 ELSE 1)
                     + (IF citations = Absent THEN 0 ELSE 1)
        IN  /\ raises => pf_response = EmptyDict
            /\ ~raises =>
                   /\ Keys(pf_response) =
                          {"id", "model", "created", "object",
                           "history_metadata", "choices"}
                   /\ pf_response.id = pfCompletion.id
                   /\ pf_response.model = Str(<<>>)
                   /\ pf_response.created = Str(<<>>)
                   /\ pf_response.object = Str(<<>>)
                   /\ pf_response.history_metadata = pf_history_metadata
                   /\ Len(pf_response.choices) = 1
                   /\ LET ms == pf_response.choices[1].messages
                      IN  /\ Len(ms) = n
                          /\ response # Absent =>
                                 ms[1] = [role |-> "assistant",
                                          content |-> Str(unquote(response.s))]
                          /\ citations # Absent =>
                                 ms[n] = [role |-> "tool",
                                          content |-> Str(JsonCitations(
                                              unquote(JsonDumps(citations))))]

C10_Witness ==
    /\ pf_pc = "returned"
    /\ pfCompletion # None
    /\ pfCompletion.error = Absent
    /\ response_field_name = "reply"
    /\ citations_field_name = "documents"
    /\ pfCompletion.documents = Str(<<37, 50, 70>>)
    /\ pf_response # EmptyDict
    /\ Len(pf_response.choices[1].messages) = 2
    /\ pf_response.choices[1].messages[1] =
           [role |-> "assistant", content |-> Str(<<34, 233>>)]
    /\ pf_response.choices[1].messages[2].role = "tool"
    /\ pf_response.choices[1].messages[2].content.s =
           <<123, 34, 99, 105, 116, 97, 116, 105, 111, 110, 115, 34, 58, 32,
             34, 92, 34, 47, 92, 34, 34, 125>>
====
